---- MODULE Spec2Model ----
(***************************************************************************)
(* The supply-chain resilience API: backend/app/models.py (the entities    *)
(* and their field constraints), backend/app/data.py (the constant data    *)
(* built while the module is imported, and build_dashboard) and            *)
(* backend/app/main.py (the FastAPI application, its CORS middleware and   *)
(* its two GET routes).                                                    *)
(*                                                                         *)
(* Units.  A datetime is an integer number of minutes (the offsets of      *)
(* data.py are whole minutes); a float is an integer number of hundredths  *)
(* (0.82 is 82, 420.0 is 42000), so that `ge=0, le=1` reads 0..Hundredths. *)
(* An Optional[str] is a sequence of at most one string: None is << >>.    *)
(***************************************************************************)
EXTENDS Integers, Sequences, FiniteSets, TLC

VARIABLES
    literals,               \* the constrained numeric literals data.py ships
    pc,                     \* position of the import of backend.app.main
    clock,                  \* the wall clock datetime.utcnow() reads
    NOW,
    NETWORK_SUMMARY,
    NODES,
    SHIPMENTS,
    ALERTS,
    OPTIMIZATIONS,
    RESILIENCE_HIGHLIGHTS,
    app,                    \* the FastAPI application object (its version)
    requests,               \* the requests of this process lifetime
    setBack,                \* the requests whose clock reading a set-back followed
    args,                   \* models only: the values offered to a constructor
    made                    \* models only: what each construction yielded

data == <<NOW, NETWORK_SUMMARY, NODES, SHIPMENTS, ALERTS, OPTIMIZATIONS,
          RESILIENCE_HIGHLIGHTS>>
vars == <<literals, pc, clock, NOW, NETWORK_SUMMARY, NODES, SHIPMENTS, ALERTS,
          OPTIMIZATIONS, RESILIENCE_HIGHLIGHTS, app, requests, args, made, setBack>>

\* ------------------------------------------------------------------ bounds

MaxClock == 2         \* minutes the wall clock may advance in a run
MaxRequests == 3      \* requests received in one process lifetime
Margin == 2           \* how far past a constraint's ends the probes reach

\* ------------------------------------------------------------------ units

Hundredths == 100     \* one unit of a float field, in hundredths

\* timedelta(days=d, hours=h, minutes=m), in minutes
timedelta(d, h, m) == (d * 24 + h) * 60 + m

\* datetime.isoformat(): the date, the hour and the minute, most significant
\* first (the JSON encoding of every datetime field).
isoformat(t) == <<t \div 1440, (t % 1440) \div 60, t % 60>>

\* The instant an ISO string names (what a client parses it to).
fromisoformat(s) == (s[1] * 24 + s[2]) * 60 + s[3]

None == << >>

\* ------------------------------------------------------------------ models.py

RiskLevel ==
    [LOW    |-> [name |-> "LOW",    value |-> "Low"],
     MEDIUM |-> [name |-> "MEDIUM", value |-> "Medium"],
     HIGH   |-> [name |-> "HIGH",   value |-> "High"]]

RiskLevelMembers == {RiskLevel.LOW, RiskLevel.MEDIUM, RiskLevel.HIGH}

\* What a constructor yields when a field constraint is violated.
ValidationError == [ok |-> FALSE]

Constructed(entity) == [ok |-> TRUE, value |-> entity]

NodeStatus(id, role, location, status, throughput_tph, last_event, risk_level) ==
    IF risk_level \in RiskLevelMembers
    THEN Constructed([id |-> id, role |-> role, location |-> location,
                      status |-> status, throughput_tph |-> throughput_tph,
                      last_event |-> last_event, risk_level |-> risk_level])
    ELSE ValidationError

Shipment(id, origin, destination, status, eta, last_checkpoint, blockchain_anchor, risk_level) ==
    IF risk_level \in RiskLevelMembers
    THEN Constructed([id |-> id, origin |-> origin, destination |-> destination,
                      status |-> status, eta |-> eta,
                      last_checkpoint |-> last_checkpoint,
                      blockchain_anchor |-> blockchain_anchor,
                      risk_level |-> risk_level])
    ELSE ValidationError

Alert(id, severity, message, timestamp, recommended_action) ==
    IF severity \in RiskLevelMembers
    THEN Constructed([id |-> id, severity |-> severity, message |-> message,
                      timestamp |-> timestamp,
                      recommended_action |-> recommended_action])
    ELSE ValidationError

\* confidence: float = Field(..., ge=0, le=1), without its upper limit
OptimizationRecommendationNoLe(id, title, impact, description, suggested_action, confidence) ==
    IF confidence >= 0
    THEN Constructed([id |-> id, title |-> title, impact |-> impact,
                      description |-> description,
                      suggested_action |-> suggested_action,
                      confidence |-> confidence])
    ELSE ValidationError

OptimizationRecommendation(id, title, impact, description, suggested_action, confidence) ==
    IF confidence >= 0 /\ confidence <= 1 * Hundredths
    THEN Constructed([id |-> id, title |-> title, impact |-> impact,
                      description |-> description,
                      suggested_action |-> suggested_action,
                      confidence |-> confidence])
    ELSE ValidationError

\* risk_score: int = Field(..., ge=0, le=100), without its upper limit
NetworkSummaryNoLe(name, block_height, smart_contract_version, uptime, risk_score, last_updated, total_transactions, oracle_integrations) ==
    IF risk_score >= 0
    THEN Constructed([name |-> name, block_height |-> block_height,
                      smart_contract_version |-> smart_contract_version,
                      uptime |-> uptime, risk_score |-> risk_score,
                      last_updated |-> last_updated,
                      total_transactions |-> total_transactions,
                      oracle_integrations |-> oracle_integrations])
    ELSE ValidationError

NetworkSummary(name, block_height, smart_contract_version, uptime, risk_score, last_updated, total_transactions, oracle_integrations) ==
    IF risk_score >= 0 /\ risk_score <= 100
    THEN Constructed([name |-> name, block_height |-> block_height,
                      smart_contract_version |-> smart_contract_version,
                      uptime |-> uptime, risk_score |-> risk_score,
                      last_updated |-> last_updated,
                      total_transactions |-> total_transactions,
                      oracle_integrations |-> oracle_integrations])
    ELSE ValidationError

DashboardResponse(network, nodes, shipments, alerts, optimizations, resilience_highlights) ==
    [network |-> network, nodes |-> nodes, shipments |-> shipments,
     alerts |-> alerts, optimizations |-> optimizations,
     resilience_highlights |-> resilience_highlights]

HealthResponse(status, timestamp, version) ==
    [status |-> status, timestamp |-> timestamp, version |-> version,
     notes |-> None]

\* ------------------------------------------------------------------ data.py

\* The literals of data.py that a field constraint restricts: risk_score=76
\* (line 15) and confidence=0.82, 0.74 (lines 115, 123).
ShippedLiterals == [risk_score |-> 76, confidence |-> <<82, 74>>]

\* A list display [X(...), X(...), ...]: the list of the entities, unless
\* constructing one of them raised.
ListOf(results) ==
    IF \A i \in DOMAIN results : results[i].ok
    THEN Constructed([i \in DOMAIN results |-> results[i].value])
    ELSE ValidationError

NetworkSummaryValue(now, lit) ==
    NetworkSummary("Global Resilience Network", 2845, "v1.4.2", "99.982%",
                   lit.risk_score, now, 158240,
                   <<"PortAuthority", "WeatherNet", "FXRateHub">>)

NodesValue(now) ==
    ListOf(<<
        NodeStatus("node-mfg-001", "Manufacturer", "Nagoya, Japan", "Operational",
                   420 * Hundredths, now - timedelta(0, 0, 12), RiskLevel.LOW),
        NodeStatus("node-supplier-014", "Tier 2 Supplier", "Penang, Malaysia",
                   "Capacity Watch", 265 * Hundredths, now - timedelta(0, 0, 24),
                   RiskLevel.MEDIUM),
        NodeStatus("node-log-007", "Logistics Hub", "Rotterdam, Netherlands",
                   "Weather Delay", 310 * Hundredths, now - timedelta(0, 1, 5),
                   RiskLevel.HIGH) >>)

\* data.py:51-82 with the third id a copy of the second
ShipmentsValueDuplicateId(now) ==
    ListOf(<<
        Shipment("shipment-4839", "Nagoya, Japan", "Munich, Germany", "In Transit",
                 now + timedelta(5, 4, 0), "Anchored at block #2841",
                 "0x84d1...9a3f", RiskLevel.MEDIUM),
        Shipment("shipment-4840", "Penang, Malaysia", "Austin, USA",
                 "Awaiting Customs", now + timedelta(2, 19, 0),
                 "Document notarized in block #2844", "0xd091...be4c",
                 RiskLevel.HIGH),
        Shipment("shipment-4840", "Rotterdam, Netherlands", "Birmingham, UK",
                 "Delivered", now - timedelta(0, 6, 0),
                 "Delivery proof in block #2838", "0x1a24...bb92",
                 RiskLevel.LOW) >>)

ShipmentsValue(now) ==
    ListOf(<<
        Shipment("shipment-4839", "Nagoya, Japan", "Munich, Germany", "In Transit",
                 now + timedelta(5, 4, 0), "Anchored at block #2841",
                 "0x84d1...9a3f", RiskLevel.MEDIUM),
        Shipment("shipment-4840", "Penang, Malaysia", "Austin, USA",
                 "Awaiting Customs", now + timedelta(2, 19, 0),
                 "Document notarized in block #2844", "0xd091...be4c",
                 RiskLevel.HIGH),
        Shipment("shipment-4821", "Rotterdam, Netherlands", "Birmingham, UK",
                 "Delivered", now - timedelta(0, 6, 0),
                 "Delivery proof in block #2838", "0x1a24...bb92",
                 RiskLevel.LOW) >>)

AlertsValue(now) ==
    ListOf(<<
        Alert("alert-1201", RiskLevel.HIGH,
              "Typhoon disrupting sailings from East China Sea corridor",
              now - timedelta(0, 0, 8),
              "Reroute maritime legs through Singapore hub"),
        Alert("alert-1188", RiskLevel.MEDIUM,
              "Supplier quality variance detected on alloy batch",
              now - timedelta(0, 2, 17),
              "Trigger additional inspection workflow"),
        Alert("alert-1179", RiskLevel.LOW,
              "FX volatility exceeds smart-contract guard band",
              now - timedelta(0, 5, 42),
              "Increase collateral buffers for next settlement") >>)

OptimizationsValue(lit) ==
    ListOf(<<
        OptimizationRecommendation("opt-220", "Dynamic Safety Stock",
            "Projected 18% resilience improvement",
            "Model suggests increasing safety stock at Rotterdam hub to buffer against port delays.",
            "Adjust smart contract thresholds for automatic replenishment",
            lit.confidence[1]),
        OptimizationRecommendation("opt-221", "Dual Sourcing Trigger",
            "Projected 12% lead-time reduction",
            "Activate alternate supplier in Vietnam for alloy components to mitigate Malaysian disruptions.",
            "Deploy contingent purchase order contract",
            lit.confidence[2]) >>)

HighlightsValue ==
    << "Oracle feeds confirm carbon tracking compliance across lanes.",
       "All critical manufacturing smart contracts passed overnight audits.",
       "Predictive risk model indicates improving trend for APAC routes." >>

build_dashboard ==
    DashboardResponse(NETWORK_SUMMARY, NODES, SHIPMENTS, ALERTS, OPTIMIZATIONS,
                      RESILIENCE_HIGHLIGHTS)

\* ------------------------------------------------------------------ main.py

\* FastAPI(...): the application with the routes the constructor installs
\* itself (the OpenAPI document and the two documentation pages).
FastAPI(title, version) ==
    [title |-> title, version |-> version,
     routes |-> << [path |-> "/openapi.json", methods |-> {"GET", "HEAD"}, endpoint |-> "openapi"],
                   [path |-> "/docs", methods |-> {"GET", "HEAD"}, endpoint |-> "swagger_ui_html"],
                   [path |-> "/docs/oauth2-redirect", methods |-> {"GET", "HEAD"}, endpoint |-> "swagger_ui_redirect"],
                   [path |-> "/redoc", methods |-> {"GET", "HEAD"}, endpoint |-> "redoc_html"] >>,
     middleware |-> << >>]

\* app.add_middleware(CORSMiddleware, allow_origins=["*"], allow_credentials=True,
\* allow_methods=["*"], allow_headers=["*"]); "*" stands for these methods.
AllowMethods == {"DELETE", "GET", "HEAD", "OPTIONS", "PATCH", "POST", "PUT"}

add_middleware(a) == [a EXCEPT !.middleware = <<"CORSMiddleware">> \o @]

\* @app.get(path): a route answering GET only
get(a, path, endpoint) ==
    [a EXCEPT !.routes = Append(@, [path |-> path, methods |-> {"GET"}, endpoint |-> endpoint])]

\* An enum member encoded by its name
EnumJsonName(member) == member.name

\* The JSON encoding of an enum member is its value.
EnumJson(member) == member.value

NetworkJson(n) == [n EXCEPT !.last_updated = isoformat(@)]
NodeJson(n) == [n EXCEPT !.last_event = isoformat(@), !.risk_level = EnumJson(@)]
ShipmentJson(x) == [x EXCEPT !.eta = isoformat(@), !.risk_level = EnumJson(@)]
AlertJson(x) == [x EXCEPT !.timestamp = isoformat(@), !.severity = EnumJson(@)]

\* response_model=DashboardResponse: the body sent for a DashboardResponse
DashboardJson(d) ==
    [network |-> NetworkJson(d.network),
     nodes |-> [i \in DOMAIN d.nodes |-> NodeJson(d.nodes[i])],
     shipments |-> [i \in DOMAIN d.shipments |-> ShipmentJson(d.shipments[i])],
     alerts |-> [i \in DOMAIN d.alerts |-> AlertJson(d.alerts[i])],
     optimizations |-> d.optimizations,
     resilience_highlights |-> d.resilience_highlights]

\* response_model=HealthResponse: the body sent for a HealthResponse
HealthJson(h) == [h EXCEPT !.timestamp = isoformat(@)]

\* health_check with the import-time anchor in place of a fresh clock reading
health_checkAnchored == HealthResponse("ok", NOW, app.version)

health_check == HealthResponse("ok", clock, app.version)

\* get_dashboard with last_updated refreshed at the request
get_dashboardRefreshed ==
    [build_dashboard EXCEPT !.network = [@ EXCEPT !.last_updated = clock]]

get_dashboard == build_dashboard

\* The endpoints declared with def: the framework runs them in a worker
\* thread, validates what they return in a worker thread again and encodes
\* the validated model on the event loop.
ThreadpoolEndpoints == {"health_check", "get_dashboard"}

\* What a route's endpoint gives the router: a call still to be made for an
\* endpoint of main.py, the document itself for a route of the framework.
Endpoint(name) ==
    IF name \in ThreadpoolEndpoints
    THEN [call |-> name]
    ELSE [status |-> 200, body |-> [document |-> name]]

\* run_in_threadpool(dependant.call): the endpoint runs and returns its model.
Call(name) == IF name = "health_check" THEN health_check ELSE get_dashboard

\* field.validate of the route's response_model: health_check and
\* get_dashboard return instances of their response_model, and an instance is
\* returned as it is, with no errors and without its fields being checked
\* again.
validate(name, v) == Constructed(v)

\* serialize_response after field.validate: errors are answered 500, a model
\* returned without errors is encoded as the body of a 200 response.
serialize_response(name, validated) ==
    IF ~validated.ok
    THEN [status |-> 500, body |-> [text |-> "Internal Server Error"]]
    ELSE IF name = "health_check"
    THEN [status |-> 200, body |-> HealthJson(validated.value)]
    ELSE [status |-> 200, body |-> DashboardJson(validated.value)]

\* str.endswith("/")
EndsWithSlash(path) == Len(path) > 0 /\ SubSeq(path, Len(path), Len(path)) = "/"

\* str.rstrip("/"): the path without any of its trailing slashes
RECURSIVE rstrip(_)
rstrip(path) == IF EndsWithSlash(path) THEN rstrip(SubSeq(path, 1, Len(path) - 1)) ELSE path

\* redirect_slashes: the path the router tries when no route matches, with
\* the trailing slashes removed or, when there is none, one added.
SlashVariant(path) == IF EndsWithSlash(path) THEN rstrip(path) ELSE path \o "/"

\* The router: the first route matching path and method is taken; a path that
\* only matches with another method is 405; a path that is a route but for
\* its trailing slashes is redirected; anything else is 404.
Router(method, path) ==
    LET rs == app.routes
        paths == {i \in DOMAIN rs : rs[i].path = path}
        full == {i \in paths : method \in rs[i].methods}
    IN  IF full # {}
        THEN Endpoint(rs[CHOOSE i \in full : \A j \in full : i <= j].endpoint)
        ELSE IF paths # {}
        THEN [status |-> 405, body |-> [detail |-> "Method Not Allowed"]]
        ELSE IF path # "/" /\ \E i \in DOMAIN rs : rs[i].path = SlashVariant(path)
        THEN [status |-> 307, body |-> [location |-> SlashVariant(path)]]
        ELSE [status |-> 404, body |-> [detail |-> "Not Found"]]

\* CORSMiddleware.preflight_response: every origin and header is allowed, and
\* the requested method must be one of AllowMethods.
preflight_response(headers) ==
    IF headers.access_control_request_method[1] \in AllowMethods
    THEN [status |-> 200, body |-> [text |-> "OK"]]
    ELSE [status |-> 400, body |-> [text |-> "Disallowed CORS method"]]

\* The application without its middleware
ApplicationUnwrapped(method, path, headers) == Router(method, path)

\* The application as a request meets it: the CORS middleware answers a
\* preflight itself and passes every other request on to the router.
Application(method, path, headers) ==
    IF "CORSMiddleware" \in {app.middleware[i] : i \in DOMAIN app.middleware}
       /\ headers.origin # None
       /\ method = "OPTIONS"
       /\ headers.access_control_request_method # None
    THEN preflight_response(headers)
    ELSE Router(method, path)

\* ------------------------------------------------------------------ startup

Unbound == << >>

\* data.py:8
ImportNOW ==
    /\ pc = "NOW"
    /\ NOW' = clock
    /\ pc' = "NETWORK_SUMMARY"
    /\ UNCHANGED <<literals, clock, NETWORK_SUMMARY, NODES, SHIPMENTS, ALERTS, OPTIMIZATIONS, RESILIENCE_HIGHLIGHTS, app, requests, args, made, setBack>>

\* data.py:10-19; a ValidationError ends the import, and with it the process
DefineNETWORK_SUMMARY ==
    /\ pc = "NETWORK_SUMMARY"
    /\ LET r == NetworkSummaryValue(NOW, literals)
       IN  IF r.ok
           THEN NETWORK_SUMMARY' = r.value /\ pc' = "NODES"
           ELSE pc' = "failed" /\ UNCHANGED NETWORK_SUMMARY
    /\ UNCHANGED <<literals, clock, NOW, NODES, SHIPMENTS, ALERTS, OPTIMIZATIONS, RESILIENCE_HIGHLIGHTS, app, requests, args, made, setBack>>

\* data.py:21-49, each last_event taken from the clock at that line
DefineNODESFromClock ==
    /\ pc = "NODES"
    /\ NODES' = NodesValue(clock).value /\ pc' = "SHIPMENTS"
    /\ UNCHANGED <<literals, clock, NOW, NETWORK_SUMMARY, SHIPMENTS, ALERTS, OPTIMIZATIONS, RESILIENCE_HIGHLIGHTS, app, requests, args, made, setBack>>

\* data.py:21-49
DefineNODES ==
    /\ pc = "NODES"
    /\ LET r == NodesValue(NOW)
       IN  IF r.ok
           THEN NODES' = r.value /\ pc' = "SHIPMENTS"
           ELSE pc' = "failed" /\ UNCHANGED NODES
    /\ UNCHANGED <<literals, clock, NOW, NETWORK_SUMMARY, SHIPMENTS, ALERTS, OPTIMIZATIONS, RESILIENCE_HIGHLIGHTS, app, requests, args, made, setBack>>

\* data.py:51-82
DefineSHIPMENTS ==
    /\ pc = "SHIPMENTS"
    /\ LET r == ShipmentsValue(NOW)
       IN  IF r.ok
           THEN SHIPMENTS' = r.value /\ pc' = "ALERTS"
           ELSE pc' = "failed" /\ UNCHANGED SHIPMENTS
    /\ UNCHANGED <<literals, clock, NOW, NETWORK_SUMMARY, NODES, ALERTS, OPTIMIZATIONS, RESILIENCE_HIGHLIGHTS, app, requests, args, made, setBack>>

\* data.py:84-106
DefineALERTS ==
    /\ pc = "ALERTS"
    /\ LET r == AlertsValue(NOW)
       IN  IF r.ok
           THEN ALERTS' = r.value /\ pc' = "OPTIMIZATIONS"
           ELSE pc' = "failed" /\ UNCHANGED ALERTS
    /\ UNCHANGED <<literals, clock, NOW, NETWORK_SUMMARY, NODES, SHIPMENTS, OPTIMIZATIONS, RESILIENCE_HIGHLIGHTS, app, requests, args, made, setBack>>

\* data.py:108-125, with a ValidationError swallowed and the list left empty
DefineOPTIMIZATIONSLenient ==
    /\ pc = "OPTIMIZATIONS"
    /\ LET r == OptimizationsValue(literals)
       IN  OPTIMIZATIONS' = IF r.ok THEN r.value ELSE << >>
    /\ pc' = "RESILIENCE_HIGHLIGHTS"
    /\ UNCHANGED <<literals, clock, NOW, NETWORK_SUMMARY, NODES, SHIPMENTS, ALERTS, RESILIENCE_HIGHLIGHTS, app, requests, args, made, setBack>>

\* data.py:108-125
DefineOPTIMIZATIONS ==
    /\ pc = "OPTIMIZATIONS"
    /\ LET r == OptimizationsValue(literals)
       IN  IF r.ok
           THEN OPTIMIZATIONS' = r.value /\ pc' = "RESILIENCE_HIGHLIGHTS"
           ELSE pc' = "failed" /\ UNCHANGED OPTIMIZATIONS
    /\ UNCHANGED <<literals, clock, NOW, NETWORK_SUMMARY, NODES, SHIPMENTS, ALERTS, RESILIENCE_HIGHLIGHTS, app, requests, args, made, setBack>>

\* data.py:127-131
DefineRESILIENCE_HIGHLIGHTS ==
    /\ pc = "RESILIENCE_HIGHLIGHTS"
    /\ RESILIENCE_HIGHLIGHTS' = HighlightsValue
    /\ pc' = "app"
    /\ UNCHANGED <<literals, clock, NOW, NETWORK_SUMMARY, NODES, SHIPMENTS, ALERTS, OPTIMIZATIONS, app, requests, args, made, setBack>>

\* main.py:11-23
CreateApp ==
    /\ pc = "app"
    /\ app' = add_middleware(FastAPI("Blockchain Supply Chain Resilience API", "0.1.0"))
    /\ pc' = "routes"
    /\ UNCHANGED <<literals, clock, data, requests, args, made, setBack>>

\* main.py:26-35; the import is complete and the server takes requests
RegisterRoutes ==
    /\ pc = "routes"
    /\ app' = get(get(app, "/health", "health_check"), "/api/dashboard", "get_dashboard")
    /\ pc' = "serving"
    /\ UNCHANGED <<literals, clock, data, requests, args, made, setBack>>

\* The wall clock advances.
Tick ==
    /\ pc \notin {"failed", "models"}
    /\ clock < MaxClock
    /\ clock' = clock + 1
    /\ UNCHANGED <<literals, pc, data, app, requests, args, made, setBack>>

\* The requests whose endpoint has read the clock.
ClockReaders ==
    {i \in DOMAIN requests : /\ requests[i].st \in {"returned", "validating", "validated", "handled", "done"}
                             /\ requests[i].method = "GET" /\ requests[i].path = "/health"}

\* The wall clock is set back (a clock step, an administrator).
SetBack ==
    /\ pc \notin {"failed", "models"}
    /\ \E t \in 0..(clock - 1) : clock' = t
    /\ setBack' = setBack \cup ClockReaders
    /\ UNCHANGED <<literals, pc, data, app, requests, args, made>>

\* ------------------------------------------------------------------ requests

NoCors == [origin |-> None, access_control_request_method |-> None]
Preflight(m) == [origin |-> <<"https://ui.example">>, access_control_request_method |-> <<m>>]

OriginOnly == [origin |-> <<"https://ui.example">>, access_control_request_method |-> None]

\* The requests a client sends, <<method, path, headers>>: the two
\* endpoints, a wrong method and an unknown path.
RequestKinds ==
    { <<"GET", "/health", NoCors>>,
      <<"GET", "/api/dashboard", NoCors>>,
      <<"POST", "/api/dashboard", NoCors>>,
      <<"GET", "/api/unknown", NoCors>> }

\* Every method, path and set of CORS headers tried on the router.
Methods == {"GET", "HEAD", "POST", "OPTIONS"}
Paths ==
    {"/", "//", "/health", "/health/", "/health//", "/api/dashboard", "/api/dashboard/",
     "/api/unknown", "/api/unknown/", "/openapi.json", "/docs", "/docs//",
     "/docs/oauth2-redirect", "/redoc"}
HeaderSets == {NoCors, OriginOnly, Preflight("POST"), Preflight("BREW")}
RoutingKinds == {<<m, p, h>> : m \in Methods, p \in Paths, h \in HeaderSets}

RequestIds == 1..MaxRequests

Done == {i \in RequestIds : requests[i].st = "done"}

\* A request arrives; preceded: the requests already answered by then.
Receive(i, kind) ==
    /\ pc = "serving"
    /\ requests[i].st = "new"
    /\ \A j \in RequestIds : j < i => requests[j].st # "new"
    /\ requests' = [requests EXCEPT ![i] =
            [st |-> "received", method |-> kind[1], path |-> kind[2], headers |-> kind[3],
             preceded |-> Done]]
    /\ UNCHANGED <<literals, pc, clock, data, app, args, made, setBack>>

\* The request passes the middleware and the router on the event loop: a
\* preflight, a route of the framework, a wrong method, a redirect and an unknown
\* path are answered at once; an endpoint of main.py is handed to a worker
\* thread and the event loop is free for other requests.
Route(i) ==
    /\ pc = "serving"
    /\ requests[i].st = "received"
    /\ LET q == requests[i]
           r == Application(q.method, q.path, q.headers)
           base == [method |-> q.method, path |-> q.path, headers |-> q.headers,
                    preceded |-> q.preceded]
       IN  requests' = [requests EXCEPT ![i] =
               IF "call" \in DOMAIN r
               THEN base @@ [st |-> "routed", call |-> r.call]
               ELSE base @@ [st |-> "handled", status |-> r.status, body |-> r.body]]
    /\ UNCHANGED <<literals, pc, clock, data, app, args, made, setBack>>

\* Running an endpoint that also takes a new anchor
RunEndpointReanchoring(i) ==
    /\ pc = "serving"
    /\ requests[i].st = "routed"
    /\ LET q == requests[i]
       IN  requests' = [requests EXCEPT ![i] =
               [st |-> "returned", method |-> q.method, path |-> q.path, headers |-> q.headers,
                preceded |-> q.preceded, call |-> q.call, result |-> Call(q.call)]]
    /\ NOW' = clock
    /\ UNCHANGED <<literals, pc, clock, NETWORK_SUMMARY, NODES, SHIPMENTS, ALERTS, OPTIMIZATIONS, RESILIENCE_HIGHLIGHTS, app, args, made, setBack>>

\* The worker thread runs the endpoint: health_check reads the clock here,
\* get_dashboard builds its aggregate; the result waits for the event loop.
RunEndpoint(i) ==
    /\ pc = "serving"
    /\ requests[i].st = "routed"
    /\ LET q == requests[i]
       IN  requests' = [requests EXCEPT ![i] =
               [st |-> "returned", method |-> q.method, path |-> q.path, headers |-> q.headers,
                preceded |-> q.preceded, call |-> q.call, result |-> Call(q.call)]]
    /\ UNCHANGED <<literals, pc, clock, data, app, args, made, setBack>>

\* Back on the event loop the request's coroutine takes the result and
\* awaits run_in_threadpool(field.validate, ...): the event loop is free again.
AwaitValidate(i) ==
    /\ pc = "serving"
    /\ requests[i].st = "returned"
    /\ requests' = [requests EXCEPT ![i].st = "validating"]
    /\ UNCHANGED <<literals, pc, clock, data, app, args, made, setBack>>

\* A worker thread runs field.validate on the result.
Validate(i) ==
    /\ pc = "serving"
    /\ requests[i].st = "validating"
    /\ LET q == requests[i]
       IN  requests' = [requests EXCEPT ![i] =
               [st |-> "validated", method |-> q.method, path |-> q.path, headers |-> q.headers,
                preceded |-> q.preceded, call |-> q.call, validated |-> validate(q.call, q.result)]]
    /\ UNCHANGED <<literals, pc, clock, data, app, args, made, setBack>>

\* Back on the event loop the validated model is encoded: the response is
\* ready.
Serialize(i) ==
    /\ pc = "serving"
    /\ requests[i].st = "validated"
    /\ LET q == requests[i]
           r == serialize_response(q.call, q.validated)
       IN  requests' = [requests EXCEPT ![i] =
               [st |-> "handled", method |-> q.method, path |-> q.path, headers |-> q.headers,
                preceded |-> q.preceded, status |-> r.status, body |-> r.body]]
    /\ UNCHANGED <<literals, pc, clock, data, app, args, made, setBack>>

\* The response has been sent: the request is answered.
Send(i) ==
    /\ pc = "serving"
    /\ requests[i].st = "handled"
    /\ requests' = [requests EXCEPT ![i].st = "done"]
    /\ UNCHANGED <<literals, pc, clock, data, app, args, made, setBack>>

\* ------------------------------------------------------------------ specifications

InitCommon ==
    /\ clock = 0
    /\ NOW = Unbound /\ NETWORK_SUMMARY = Unbound /\ NODES = Unbound
    /\ SHIPMENTS = Unbound /\ ALERTS = Unbound /\ OPTIMIZATIONS = Unbound
    /\ RESILIENCE_HIGHLIGHTS = Unbound
    /\ app = Unbound
    /\ requests = [i \in RequestIds |-> [st |-> "new"]]
    /\ setBack = {}

Init ==
    /\ InitCommon
    /\ pc = "NOW"
    /\ literals = ShippedLiterals
    /\ args = Unbound /\ made = Unbound

Next ==
    \/ ImportNOW
    \/ DefineNETWORK_SUMMARY
    \/ DefineNODES
    \/ DefineSHIPMENTS
    \/ DefineALERTS
    \/ DefineOPTIMIZATIONS
    \/ DefineRESILIENCE_HIGHLIGHTS
    \/ CreateApp
    \/ RegisterRoutes
    \/ Tick
    \/ SetBack
    \/ \E i \in RequestIds, kind \in RequestKinds : Receive(i, kind)
    \/ \E i \in RequestIds : Route(i)
    \/ \E i \in RequestIds : RunEndpoint(i)
    \/ \E i \in RequestIds : AwaitValidate(i)
    \/ \E i \in RequestIds : Validate(i)
    \/ \E i \in RequestIds : Serialize(i)
    \/ \E i \in RequestIds : Send(i)

Spec == Init /\ [][Next]_vars

\* models.py on its own: a constructor applied to the values of args.
ConstructOptimization ==
    /\ pc = "models"
    /\ made.optimization = << >>
    /\ made' = [made EXCEPT !.optimization =
            << OptimizationRecommendation("opt-0", "title", "impact", "description",
                                          "action", args.confidence) >>]
    /\ UNCHANGED <<literals, pc, clock, data, app, requests, args, setBack>>

ConstructNetwork ==
    /\ pc = "models"
    /\ made.network = << >>
    /\ made' = [made EXCEPT !.network =
            << NetworkSummary("name", 0, "v0", "100%", args.risk_score, 0, 0, << >>) >>]
    /\ UNCHANGED <<literals, pc, clock, data, app, requests, args, setBack>>

InitModels ==
    /\ InitCommon
    /\ pc = "models"
    /\ literals = ShippedLiterals
    /\ args \in [confidence : (0 - Margin)..(Hundredths + Margin),
                 risk_score : (0 - Margin)..(100 + Margin)]
    /\ made = [optimization |-> << >>, network |-> << >>]

NextModels == ConstructOptimization \/ ConstructNetwork

SpecModels == InitModels /\ [][NextModels]_vars

\* The process answering one request of any kind.
NextRouting ==
    \/ ImportNOW
    \/ DefineNETWORK_SUMMARY
    \/ DefineNODES
    \/ DefineSHIPMENTS
    \/ DefineALERTS
    \/ DefineOPTIMIZATIONS
    \/ DefineRESILIENCE_HIGHLIGHTS
    \/ CreateApp
    \/ RegisterRoutes
    \/ Tick
    \/ SetBack
    \/ \E kind \in RoutingKinds : Receive(1, kind)
    \/ Route(1)
    \/ RunEndpoint(1)
    \/ AwaitValidate(1)
    \/ Validate(1)
    \/ Serialize(1)
    \/ Send(1)

SpecRouting == Init /\ [][NextRouting]_vars

\* The program as shipped, and builds of it whose constrained literals lie
\* past the ends of their ranges.
BuildLiterals ==
    [risk_score : {0 - Margin, ShippedLiterals.risk_score, 100 + Margin},
     confidence : {ShippedLiterals.confidence, <<82, Hundredths + Margin>>}]

InitBuild ==
    /\ InitCommon
    /\ pc = "NOW"
    /\ literals \in BuildLiterals
    /\ args = Unbound /\ made = Unbound

SpecBuild == InitBuild /\ [][Next]_vars

\* ------------------------------------------------------------------ claims

Answered == {i \in RequestIds : requests[i].st \in {"handled", "done"}}

IsPreflight(q) ==
    /\ q.method = "OPTIONS"
    /\ q.headers.origin # None
    /\ q.headers.access_control_request_method # None

DashboardRequests == {i \in Answered : requests[i].method = "GET" /\ requests[i].path = "/api/dashboard"}
HealthRequests == {i \in Answered : requests[i].method = "GET" /\ requests[i].path = "/health"}

HealthTimestamp(i) == fromisoformat(requests[i].body.timestamp)

DashboardFields == {"network", "nodes", "shipments", "alerts", "optimizations", "resilience_highlights"}
HealthFields == {"status", "timestamp", "version", "notes"}

\* C1: any two GET /api/dashboard responses of one process lifetime are equal
\* field for field, whenever they were requested and whatever ran between or
\* beside them.
C1_DashboardDeterministic ==
    \A i \in DashboardRequests, j \in DashboardRequests :
        /\ requests[i].status = 200
        /\ DOMAIN requests[i].body = DashboardFields
        /\ \A f \in DashboardFields : requests[i].body[f] = requests[j].body[f]

\* Two dashboard requests in flight together, a health request arrived
\* between them and answered with a reading later than the anchor, the second
\* dashboard not yet sent.
C1_Witness ==
    \E i \in DashboardRequests, j \in DashboardRequests, k \in HealthRequests :
        /\ i < k /\ k < j
        /\ i \notin requests[j].preceded
        /\ requests[j].st = "handled"
        /\ NOW < HealthTimestamp(k)

\* C2: every dashboard response has 3 nodes, 3 shipments, 3 alerts,
\* 2 optimizations and 3 highlights, with non-empty ids that are pairwise
\* distinct within each collection.
C2_Cardinalities ==
    \A i \in DashboardRequests :
        LET b == requests[i].body
        IN  /\ Len(b.nodes) = 3 /\ Len(b.shipments) = 3 /\ Len(b.alerts) = 3
            /\ Len(b.optimizations) = 2 /\ Len(b.resilience_highlights) = 3
            /\ \A c \in {"nodes", "shipments", "alerts", "optimizations"} :
                /\ \A k \in DOMAIN b[c] : b[c][k].id # ""
                /\ \A k \in DOMAIN b[c], l \in DOMAIN b[c] : k # l => b[c][k].id # b[c][l].id

C2_Witness ==
    \E i \in DashboardRequests :
        /\ requests[i].body.shipments[3].id = "shipment-4821"
        /\ requests[i].body.optimizations[2].id = "opt-221"

HealthShape(i) ==
    LET b == requests[i].body
    IN  /\ requests[i].status = 200
        /\ DOMAIN b = HealthFields
        /\ b.status = "ok"
        /\ b.version = app.version /\ b.version = "0.1.0"
        /\ b.notes = None

\* C3 as stated, on the responses: a GET /health response is 200 with status
\* "ok", the service version and no notes, and a health request that begins
\* after another was answered carries a timestamp no earlier than that one's.
C3_HealthAsStated ==
    \A i \in HealthRequests :
        /\ HealthShape(i)
        /\ \A j \in HealthRequests :
            i \in requests[j].preceded => HealthTimestamp(j) >= HealthTimestamp(i)

\* The step in which the endpoint of health request i runs.
HealthRuns(i) ==
    /\ requests[i].st = "routed" /\ requests'[i].st = "returned"
    /\ requests[i].method = "GET" /\ requests[i].path = "/health"

\* The clock reading a health request carries once its endpoint has run: in
\* the returned model, in the validated model, in the body.
Reading(q) ==
    IF q.st \in {"returned", "validating"} THEN q.result.timestamp
    ELSE IF q.st = "validated" THEN q.validated.value.timestamp
    ELSE fromisoformat(q.body.timestamp)

\* C3 amended: a GET /health response is 200 with status "ok", the service
\* version and no notes; its timestamp is the wall clock's reading in the step
\* that runs the endpoint, and no later step (the hand-over to validation,
\* the validation, the encoding, the sending, or any step of another request
\* or of the clock) changes it; and a health request that begins after another
\* was answered carries a timestamp no earlier than that one's unless the
\* wall clock was set back after the earlier reading.
C3_Health ==
    /\ [](\A i \in HealthRequests :
            /\ HealthShape(i)
            /\ \A j \in HealthRequests :
                (i \in requests[j].preceded /\ i \notin setBack)
                    => HealthTimestamp(j) >= HealthTimestamp(i))
    /\ [][\A i \in RequestIds :
            /\ HealthRuns(i) => Reading(requests'[i]) = clock
            /\ i \in ClockReaders => Reading(requests'[i]) = Reading(requests[i])]_vars

\* Two health requests one after the other with no set-back between them,
\* both later than the anchor.
C3_Witness ==
    \E i \in HealthRequests, j \in HealthRequests :
        /\ i \in requests[j].preceded
        /\ i \notin setBack
        /\ NOW < HealthTimestamp(i)
        /\ HealthTimestamp(i) < HealthTimestamp(j)

Endpoints == {"/health", "/api/dashboard"}
DocumentationPaths == {"/openapi.json", "/docs", "/docs/oauth2-redirect", "/redoc"}

\* A route followed by one, two or three slashes.
TrailingSlashes(r) == {r \o "/", r \o "//", r \o "///"}

BodyOf(q) ==
    IF DOMAIN q.body = DashboardFields THEN "dashboard"
    ELSE IF DOMAIN q.body = HealthFields THEN "health"
    ELSE "other"

\* C4 as stated: GET on the two endpoints is 200 with its body, any other
\* method on them is 405, any other path is 404, and neither of the last two
\* carries a dashboard or health body.
C4_RoutingAsStated ==
    \A i \in Answered :
        LET q == requests[i]
        IN  IF q.path \in Endpoints
            THEN IF q.method = "GET"
                 THEN q.status = 200 /\ BodyOf(q) = (IF q.path = "/health" THEN "health" ELSE "dashboard")
                 ELSE q.status = 405 /\ BodyOf(q) = "other"
            ELSE q.status = 404 /\ BodyOf(q) = "other"

\* C4 amended: a CORS preflight is answered by the middleware on any path
\* (200, or 400 for a requested method outside the standard ones); every
\* other request is routed: GET on an endpoint is 200 with its body, another
\* method on it 405, a documentation route of the framework answers GET and
\* HEAD, a route followed by one or more slashes is redirected to the route
\* (307), and any other path is 404. Only GET on an endpoint carries a dashboard or health
\* body.
C4_Routing ==
    \A i \in Answered :
        LET q == requests[i]
        IN  IF IsPreflight(q)
            THEN /\ q.status = (IF q.headers.access_control_request_method[1]
                                   \in {"DELETE", "GET", "HEAD", "OPTIONS", "PATCH", "POST", "PUT"}
                                THEN 200 ELSE 400)
                 /\ BodyOf(q) = "other"
            ELSE IF q.path \in Endpoints
            THEN IF q.method = "GET"
                 THEN q.status = 200 /\ BodyOf(q) = (IF q.path = "/health" THEN "health" ELSE "dashboard")
                 ELSE q.status = 405 /\ BodyOf(q) = "other"
            ELSE IF q.path \in DocumentationPaths
            THEN q.status = (IF q.method \in {"GET", "HEAD"} THEN 200 ELSE 405) /\ BodyOf(q) = "other"
            ELSE IF \E r \in Endpoints \cup DocumentationPaths : q.path \in TrailingSlashes(r)
            THEN /\ q.status = 307
                 /\ \E r \in Endpoints \cup DocumentationPaths :
                        q.path \in TrailingSlashes(r) /\ q.body = [location |-> r]
            ELSE q.status = 404 /\ BodyOf(q) = "other"

\* A preflight on an endpoint, answered by the middleware.
C4_Witness ==
    \E i \in Answered :
        /\ IsPreflight(requests[i]) /\ requests[i].path = "/health"
        /\ requests[i].status = 200 /\ requests[i].body = [text |-> "OK"]

\* C5: constructing an OptimizationRecommendation fails exactly when
\* confidence is outside [0,1], constructing a NetworkSummary exactly when
\* risk_score is outside [0,100]; a failure yields no entity.
C5_Constraints ==
    /\ made.optimization # << >> =>
        LET r == made.optimization[1]
        IN  /\ r.ok <=> (0 <= args.confidence /\ args.confidence <= Hundredths)
            /\ r.ok => r.value.confidence = args.confidence
            /\ ~r.ok => DOMAIN r = {"ok"}
    /\ made.network # << >> =>
        LET r == made.network[1]
        IN  /\ r.ok <=> (0 <= args.risk_score /\ args.risk_score <= 100)
            /\ r.ok => r.value.risk_score = args.risk_score
            /\ ~r.ok => DOMAIN r = {"ok"}

\* The upper boundary of confidence accepted, the first risk_score past its
\* upper boundary refused.
C5_Witness ==
    /\ args.confidence = Hundredths /\ args.risk_score = 101
    /\ made.optimization # << >> /\ made.optimization[1].ok
    /\ made.network # << >> /\ ~made.network[1].ok

LiteralsValid ==
    /\ 0 <= literals.risk_score /\ literals.risk_score <= 100
    /\ \A k \in DOMAIN literals.confidence :
        0 <= literals.confidence[k] /\ literals.confidence[k] <= Hundredths

\* C6: a build whose literals violate a constraint never serves: its import
\* fails, no application exists, no request is received and nothing further
\* happens; and a request is received only once the import is complete, with
\* NOW and all six constants built.
C6_StartupBeforeServing ==
    /\ ~LiteralsValid => pc # "serving" /\ pc # "routes" /\ app = Unbound
    /\ pc = "failed" => (\A i \in RequestIds : requests[i].st = "new") /\ ~ENABLED Next
    /\ (\E i \in RequestIds : requests[i].st # "new") =>
        /\ pc = "serving"
        /\ data = << NOW, NetworkSummaryValue(NOW, literals).value, NodesValue(NOW).value,
                     ShipmentsValue(NOW).value, AlertsValue(NOW).value,
                     OptimizationsValue(literals).value, HighlightsValue >>

\* The import failed at OPTIMIZATIONS, after the clock had moved on.
C6_Witness ==
    /\ pc = "failed"
    /\ literals.risk_score = ShippedLiterals.risk_score
    /\ literals.confidence[2] > Hundredths
    /\ clock > 0

\* The offsets of the ten timestamps from NOW, in minutes: last_updated, the
\* three last_event, the three eta, the three alert timestamps.
Offsets == <<0, -12, -24, -65, 7440, 4020, -360, -8, -137, -342>>

Stamps(b) ==
    << fromisoformat(b.network.last_updated),
       fromisoformat(b.nodes[1].last_event), fromisoformat(b.nodes[2].last_event),
       fromisoformat(b.nodes[3].last_event),
       fromisoformat(b.shipments[1].eta), fromisoformat(b.shipments[2].eta),
       fromisoformat(b.shipments[3].eta),
       fromisoformat(b.alerts[1].timestamp), fromisoformat(b.alerts[2].timestamp),
       fromisoformat(b.alerts[3].timestamp) >>

\* C7: in every dashboard response each timestamp is NOW plus its fixed
\* offset, so the difference and the order of any two of them are constants.
C7_FixedOffsets ==
    \A i \in DashboardRequests :
        LET t == Stamps(requests[i].body)
        IN  \A k \in 1..10 :
                /\ t[k] = NOW + Offsets[k]
                /\ \A l \in 1..10 :
                    /\ t[k] - t[l] = Offsets[k] - Offsets[l]
                    /\ (t[k] < t[l]) <=> (Offsets[k] < Offsets[l])

\* A dashboard built with the wall clock past the anchor.
C7_Witness ==
    \E i \in DashboardRequests :
        /\ NOW > 0
        /\ requests[i].st = "handled" /\ clock > NOW
        /\ Stamps(requests[i].body)[4] = NOW - 65

RiskLiterals == {"Low", "Medium", "High"}

\* C8: every node risk_level, shipment risk_level and alert severity of a
\* dashboard response is "Low", "Medium" or "High".
C8_RiskLiterals ==
    \A i \in DashboardRequests :
        LET b == requests[i].body
        IN  /\ \A k \in DOMAIN b.nodes : b.nodes[k].risk_level \in RiskLiterals
            /\ \A k \in DOMAIN b.shipments : b.shipments[k].risk_level \in RiskLiterals
            /\ \A k \in DOMAIN b.alerts : b.alerts[k].severity \in RiskLiterals

C8_Witness ==
    \E i \in DashboardRequests :
        LET b == requests[i].body
        IN  /\ b.nodes[1].risk_level = "Low"
            /\ b.shipments[1].risk_level = "Medium"
            /\ b.alerts[1].severity = "High"

\* C9: once the server serves, no step changes NOW or any of the six
\* constants, and the server keeps serving.
C9_DataFrame == [][pc = "serving" => (data' = data /\ app' = app /\ pc' = "serving")]_vars

\* A health and a dashboard request answered, later than the anchor.
C9_Witness ==
    /\ HealthRequests # {} /\ DashboardRequests # {}
    /\ clock > NOW
    /\ NODES = NodesValue(NOW).value

\* C10: in every dashboard response risk_score is in [0,100], block_height
\* and total_transactions are non-negative, every throughput is non-negative
\* and every confidence is in [0,1].
C10_NumericRanges ==
    \A i \in DashboardRequests :
        LET b == requests[i].body
        IN  /\ b.network.risk_score \in 0..100
            /\ b.network.block_height \in Nat
            /\ b.network.total_transactions \in Nat
            /\ \A k \in DOMAIN b.nodes : b.nodes[k].throughput_tph >= 0
            /\ \A k \in DOMAIN b.optimizations :
                0 <= b.optimizations[k].confidence /\ b.optimizations[k].confidence <= Hundredths

C10_Witness ==
    \E i \in DashboardRequests :
        LET b == requests[i].body
        IN  /\ b.network.risk_score = 76
            /\ b.optimizations[1].confidence = 82
            /\ b.nodes[1].throughput_tph = 42000

====
